---- MODULE Spec2Model ----
(***************************************************************************)
(* Model of the CalcsLive mapping-comment codec of the Inventor plug:      *)
(* parse_comment_mapping / build_comment_string in the "CA0:symbol #note"  *)
(* grammar (src/test_comment_parser.py), driven the way the test script    *)
(* drives them: parse a raw comment, build a comment from (symbol, note,   *)
(* namespace), build-then-parse, and re-encode a parsed record.            *)
(* Further down: the earlier "#AC:symbol #Note:{{text}}" codec of          *)
(* src/inventor_api.py, and the service built on it (src/inventor_api.py,  *)
(* src/main.py) over the active Inventor document.                         *)
(*                                                                         *)
(* A Python str is a sequence of characters, each a string: the character  *)
(* itself where TLA+ can spell it ("L", " ", "\t", "\f"), its Python escape *)
(* otherwise ("\\x0b" is U+000B, "\\u0663" is U+0663).  Python's None is the *)
(* one-element sequence <<"None">>, whose element is no character.         *)
(***************************************************************************)
EXTENDS Integers, Sequences, FiniteSets, TLC

VARIABLES comment, symbol, note, namespace, parsed, built, reparsed, raised, pc

\* The service (src/inventor_api.py, src/main.py): the Inventor application and
\* its active document, the COM sessions held, and the last call's outcome.
VARIABLES inventor, user_params, Comment, Value, value_rejected, mappings_prop, com, calls,
          ncalls, response

codec_vars == <<comment, symbol, note, namespace, parsed, built, reparsed, raised, pc>>

svc_vars ==
  <<inventor, user_params, Comment, Value, value_rejected, mappings_prop, com, calls, ncalls, response>>

vars == <<codec_vars, svc_vars>>

(***************************************************************************)
(* Bounds of the explored inputs.                                          *)
(***************************************************************************)
MaxLen == 3
MaxTail == 5
MaxSym == 2
MaxNote == 3

None == <<"None">>
NoExc == "NoException"
ValueError == "ValueError"
AttributeError == "AttributeError"

(***************************************************************************)
(* Python str primitives.                                                  *)
(***************************************************************************)
\* The characters str.strip() and str.split() drop: those of str.isspace().
Whitespace ==
  {"\t", "\n", "\\x0b", "\f", "\r", "\\x1c", "\\x1d", "\\x1e",
   "\\x1f", " ", "\\x85", "\\xa0", "\\u1680", "\\u2000", "\\u2001", "\\u2002",
   "\\u2003", "\\u2004", "\\u2005", "\\u2006", "\\u2007", "\\u2008", "\\u2009", "\\u200a",
   "\\u2028", "\\u2029", "\\u202f", "\\u205f", "\\u3000"}

\* The whitespace int() drops around a literal: that of str.isspace() without
\* the four ASCII separators U+001C..U+001F.
IntWhitespace == Whitespace \ {"\\x1c", "\\x1d", "\\x1e", "\\x1f"}

AsciiDigits == {"0", "1", "2", "3", "4", "5", "6", "7", "8", "9"}

\* The decimal digits of the other scripts (Unicode category Nd), which int()
\* reads by their digit value.
ScriptDigits ==
  {"\\u0660", "\\u0661", "\\u0662", "\\u0663", "\\u0664", "\\u0665", "\\u0666",
   "\\u0667", "\\u0668", "\\u0669", "\\u06f0", "\\u06f1", "\\u06f2", "\\u06f3",
   "\\u06f4", "\\u06f5", "\\u06f6", "\\u06f7", "\\u06f8", "\\u06f9", "\\u07c0",
   "\\u07c1", "\\u07c2", "\\u07c3", "\\u07c4", "\\u07c5", "\\u07c6", "\\u07c7",
   "\\u07c8", "\\u07c9", "\\u0966", "\\u0967", "\\u0968", "\\u0969", "\\u096a",
   "\\u096b", "\\u096c", "\\u096d", "\\u096e", "\\u096f", "\\u09e6", "\\u09e7",
   "\\u09e8", "\\u09e9", "\\u09ea", "\\u09eb", "\\u09ec", "\\u09ed", "\\u09ee",
   "\\u09ef", "\\u0a66", "\\u0a67", "\\u0a68", "\\u0a69", "\\u0a6a", "\\u0a6b",
   "\\u0a6c", "\\u0a6d", "\\u0a6e", "\\u0a6f", "\\u0ae6", "\\u0ae7", "\\u0ae8",
   "\\u0ae9", "\\u0aea", "\\u0aeb", "\\u0aec", "\\u0aed", "\\u0aee", "\\u0aef",
   "\\u0b66", "\\u0b67", "\\u0b68", "\\u0b69", "\\u0b6a", "\\u0b6b", "\\u0b6c",
   "\\u0b6d", "\\u0b6e", "\\u0b6f", "\\u0be6", "\\u0be7", "\\u0be8", "\\u0be9",
   "\\u0bea", "\\u0beb", "\\u0bec", "\\u0bed", "\\u0bee", "\\u0bef", "\\u0c66",
   "\\u0c67", "\\u0c68", "\\u0c69", "\\u0c6a", "\\u0c6b", "\\u0c6c", "\\u0c6d",
   "\\u0c6e", "\\u0c6f", "\\u0ce6", "\\u0ce7", "\\u0ce8", "\\u0ce9", "\\u0cea",
   "\\u0ceb", "\\u0cec", "\\u0ced", "\\u0cee", "\\u0cef", "\\u0d66", "\\u0d67",
   "\\u0d68", "\\u0d69", "\\u0d6a", "\\u0d6b", "\\u0d6c", "\\u0d6d", "\\u0d6e",
   "\\u0d6f", "\\u0de6", "\\u0de7", "\\u0de8", "\\u0de9", "\\u0dea", "\\u0deb",
   "\\u0dec", "\\u0ded", "\\u0dee", "\\u0def", "\\u0e50", "\\u0e51", "\\u0e52",
   "\\u0e53", "\\u0e54", "\\u0e55", "\\u0e56", "\\u0e57", "\\u0e58", "\\u0e59",
   "\\u0ed0", "\\u0ed1", "\\u0ed2", "\\u0ed3", "\\u0ed4", "\\u0ed5", "\\u0ed6",
   "\\u0ed7", "\\u0ed8", "\\u0ed9", "\\u0f20", "\\u0f21", "\\u0f22", "\\u0f23",
   "\\u0f24", "\\u0f25", "\\u0f26", "\\u0f27", "\\u0f28", "\\u0f29", "\\u1040",
   "\\u1041", "\\u1042", "\\u1043", "\\u1044", "\\u1045", "\\u1046", "\\u1047",
   "\\u1048", "\\u1049", "\\u1090", "\\u1091", "\\u1092", "\\u1093", "\\u1094",
   "\\u1095", "\\u1096", "\\u1097", "\\u1098", "\\u1099", "\\u17e0", "\\u17e1",
   "\\u17e2", "\\u17e3", "\\u17e4", "\\u17e5", "\\u17e6", "\\u17e7", "\\u17e8",
   "\\u17e9", "\\u1810", "\\u1811", "\\u1812", "\\u1813", "\\u1814", "\\u1815",
   "\\u1816", "\\u1817", "\\u1818", "\\u1819", "\\u1946", "\\u1947", "\\u1948",
   "\\u1949", "\\u194a", "\\u194b", "\\u194c", "\\u194d", "\\u194e", "\\u194f",
   "\\u19d0", "\\u19d1", "\\u19d2", "\\u19d3", "\\u19d4", "\\u19d5", "\\u19d6",
   "\\u19d7", "\\u19d8", "\\u19d9", "\\u1a80", "\\u1a81", "\\u1a82", "\\u1a83",
   "\\u1a84", "\\u1a85", "\\u1a86", "\\u1a87", "\\u1a88", "\\u1a89", "\\u1a90",
   "\\u1a91", "\\u1a92", "\\u1a93", "\\u1a94", "\\u1a95", "\\u1a96", "\\u1a97",
   "\\u1a98", "\\u1a99", "\\u1b50", "\\u1b51", "\\u1b52", "\\u1b53", "\\u1b54",
   "\\u1b55", "\\u1b56", "\\u1b57", "\\u1b58", "\\u1b59", "\\u1bb0", "\\u1bb1",
   "\\u1bb2", "\\u1bb3", "\\u1bb4", "\\u1bb5", "\\u1bb6", "\\u1bb7", "\\u1bb8",
   "\\u1bb9", "\\u1c40", "\\u1c41", "\\u1c42", "\\u1c43", "\\u1c44", "\\u1c45",
   "\\u1c46", "\\u1c47", "\\u1c48", "\\u1c49", "\\u1c50", "\\u1c51", "\\u1c52",
   "\\u1c53", "\\u1c54", "\\u1c55", "\\u1c56", "\\u1c57", "\\u1c58", "\\u1c59",
   "\\ua620", "\\ua621", "\\ua622", "\\ua623", "\\ua624", "\\ua625", "\\ua626",
   "\\ua627", "\\ua628", "\\ua629", "\\ua8d0", "\\ua8d1", "\\ua8d2", "\\ua8d3",
   "\\ua8d4", "\\ua8d5", "\\ua8d6", "\\ua8d7", "\\ua8d8", "\\ua8d9", "\\ua900",
   "\\ua901", "\\ua902", "\\ua903", "\\ua904", "\\ua905", "\\ua906", "\\ua907",
   "\\ua908", "\\ua909", "\\ua9d0", "\\ua9d1", "\\ua9d2", "\\ua9d3", "\\ua9d4",
   "\\ua9d5", "\\ua9d6", "\\ua9d7", "\\ua9d8", "\\ua9d9", "\\ua9f0", "\\ua9f1",
   "\\ua9f2", "\\ua9f3", "\\ua9f4", "\\ua9f5", "\\ua9f6", "\\ua9f7", "\\ua9f8",
   "\\ua9f9", "\\uaa50", "\\uaa51", "\\uaa52", "\\uaa53", "\\uaa54", "\\uaa55",
   "\\uaa56", "\\uaa57", "\\uaa58", "\\uaa59", "\\uabf0", "\\uabf1", "\\uabf2",
   "\\uabf3", "\\uabf4", "\\uabf5", "\\uabf6", "\\uabf7", "\\uabf8", "\\uabf9",
   "\\uff10", "\\uff11", "\\uff12", "\\uff13", "\\uff14", "\\uff15", "\\uff16",
   "\\uff17", "\\uff18", "\\uff19", "\\U000104a0", "\\U000104a1", "\\U000104a2", "\\U000104a3",
   "\\U000104a4", "\\U000104a5", "\\U000104a6", "\\U000104a7", "\\U000104a8", "\\U000104a9", "\\U00010d30",
   "\\U00010d31", "\\U00010d32", "\\U00010d33", "\\U00010d34", "\\U00010d35", "\\U00010d36", "\\U00010d37",
   "\\U00010d38", "\\U00010d39", "\\U00011066", "\\U00011067", "\\U00011068", "\\U00011069", "\\U0001106a",
   "\\U0001106b", "\\U0001106c", "\\U0001106d", "\\U0001106e", "\\U0001106f", "\\U000110f0", "\\U000110f1",
   "\\U000110f2", "\\U000110f3", "\\U000110f4", "\\U000110f5", "\\U000110f6", "\\U000110f7", "\\U000110f8",
   "\\U000110f9", "\\U00011136", "\\U00011137", "\\U00011138", "\\U00011139", "\\U0001113a", "\\U0001113b",
   "\\U0001113c", "\\U0001113d", "\\U0001113e", "\\U0001113f", "\\U000111d0", "\\U000111d1", "\\U000111d2",
   "\\U000111d3", "\\U000111d4", "\\U000111d5", "\\U000111d6", "\\U000111d7", "\\U000111d8", "\\U000111d9",
   "\\U000112f0", "\\U000112f1", "\\U000112f2", "\\U000112f3", "\\U000112f4", "\\U000112f5", "\\U000112f6",
   "\\U000112f7", "\\U000112f8", "\\U000112f9", "\\U00011450", "\\U00011451", "\\U00011452", "\\U00011453",
   "\\U00011454", "\\U00011455", "\\U00011456", "\\U00011457", "\\U00011458", "\\U00011459", "\\U000114d0",
   "\\U000114d1", "\\U000114d2", "\\U000114d3", "\\U000114d4", "\\U000114d5", "\\U000114d6", "\\U000114d7",
   "\\U000114d8", "\\U000114d9", "\\U00011650", "\\U00011651", "\\U00011652", "\\U00011653", "\\U00011654",
   "\\U00011655", "\\U00011656", "\\U00011657", "\\U00011658", "\\U00011659", "\\U000116c0", "\\U000116c1",
   "\\U000116c2", "\\U000116c3", "\\U000116c4", "\\U000116c5", "\\U000116c6", "\\U000116c7", "\\U000116c8",
   "\\U000116c9", "\\U00011730", "\\U00011731", "\\U00011732", "\\U00011733", "\\U00011734", "\\U00011735",
   "\\U00011736", "\\U00011737", "\\U00011738", "\\U00011739", "\\U000118e0", "\\U000118e1", "\\U000118e2",
   "\\U000118e3", "\\U000118e4", "\\U000118e5", "\\U000118e6", "\\U000118e7", "\\U000118e8", "\\U000118e9",
   "\\U00011950", "\\U00011951", "\\U00011952", "\\U00011953", "\\U00011954", "\\U00011955", "\\U00011956",
   "\\U00011957", "\\U00011958", "\\U00011959", "\\U00011c50", "\\U00011c51", "\\U00011c52", "\\U00011c53",
   "\\U00011c54", "\\U00011c55", "\\U00011c56", "\\U00011c57", "\\U00011c58", "\\U00011c59", "\\U00011d50",
   "\\U00011d51", "\\U00011d52", "\\U00011d53", "\\U00011d54", "\\U00011d55", "\\U00011d56", "\\U00011d57",
   "\\U00011d58", "\\U00011d59", "\\U00011da0", "\\U00011da1", "\\U00011da2", "\\U00011da3", "\\U00011da4",
   "\\U00011da5", "\\U00011da6", "\\U00011da7", "\\U00011da8", "\\U00011da9", "\\U00016a60", "\\U00016a61",
   "\\U00016a62", "\\U00016a63", "\\U00016a64", "\\U00016a65", "\\U00016a66", "\\U00016a67", "\\U00016a68",
   "\\U00016a69", "\\U00016ac0", "\\U00016ac1", "\\U00016ac2", "\\U00016ac3", "\\U00016ac4", "\\U00016ac5",
   "\\U00016ac6", "\\U00016ac7", "\\U00016ac8", "\\U00016ac9", "\\U00016b50", "\\U00016b51", "\\U00016b52",
   "\\U00016b53", "\\U00016b54", "\\U00016b55", "\\U00016b56", "\\U00016b57", "\\U00016b58", "\\U00016b59",
   "\\U0001d7ce", "\\U0001d7cf", "\\U0001d7d0", "\\U0001d7d1", "\\U0001d7d2", "\\U0001d7d3", "\\U0001d7d4",
   "\\U0001d7d5", "\\U0001d7d6", "\\U0001d7d7", "\\U0001d7d8", "\\U0001d7d9", "\\U0001d7da", "\\U0001d7db",
   "\\U0001d7dc", "\\U0001d7dd", "\\U0001d7de", "\\U0001d7df", "\\U0001d7e0", "\\U0001d7e1", "\\U0001d7e2",
   "\\U0001d7e3", "\\U0001d7e4", "\\U0001d7e5", "\\U0001d7e6", "\\U0001d7e7", "\\U0001d7e8", "\\U0001d7e9",
   "\\U0001d7ea", "\\U0001d7eb", "\\U0001d7ec", "\\U0001d7ed", "\\U0001d7ee", "\\U0001d7ef", "\\U0001d7f0",
   "\\U0001d7f1", "\\U0001d7f2", "\\U0001d7f3", "\\U0001d7f4", "\\U0001d7f5", "\\U0001d7f6", "\\U0001d7f7",
   "\\U0001d7f8", "\\U0001d7f9", "\\U0001d7fa", "\\U0001d7fb", "\\U0001d7fc", "\\U0001d7fd", "\\U0001d7fe",
   "\\U0001d7ff", "\\U0001e140", "\\U0001e141", "\\U0001e142", "\\U0001e143", "\\U0001e144", "\\U0001e145",
   "\\U0001e146", "\\U0001e147", "\\U0001e148", "\\U0001e149", "\\U0001e2f0", "\\U0001e2f1", "\\U0001e2f2",
   "\\U0001e2f3", "\\U0001e2f4", "\\U0001e2f5", "\\U0001e2f6", "\\U0001e2f7", "\\U0001e2f8", "\\U0001e2f9",
   "\\U0001e950", "\\U0001e951", "\\U0001e952", "\\U0001e953", "\\U0001e954", "\\U0001e955", "\\U0001e956",
   "\\U0001e957", "\\U0001e958", "\\U0001e959", "\\U0001fbf0", "\\U0001fbf1", "\\U0001fbf2", "\\U0001fbf3",
   "\\U0001fbf4", "\\U0001fbf5", "\\U0001fbf6", "\\U0001fbf7", "\\U0001fbf8", "\\U0001fbf9"}

\* The characters int() takes as decimal digits.
Digits == AsciiDigits \cup ScriptDigits

\* Python truthiness of an Optional[str]: None and "" are falsy.
Truthy(s) == s # None /\ s # <<>>

RECURSIVE lstrip(_)
lstrip(s) == IF s # <<>> /\ Head(s) \in Whitespace THEN lstrip(Tail(s)) ELSE s

RECURSIVE rstrip(_)
rstrip(s) ==
  IF s # <<>> /\ s[Len(s)] \in Whitespace THEN rstrip(SubSeq(s, 1, Len(s) - 1)) ELSE s

\* str.strip()
strip(s) == rstrip(lstrip(s))

\* c in s
Contains(s, c) == \E i \in 1..Len(s) : s[i] = c

\* s.find(c), 1-based; 0 when c does not occur
find(s, c) == IF Contains(s, c) THEN CHOOSE i \in 1..Len(s) : s[i] = c /\ \A j \in 1..(i - 1) : s[j] # c ELSE 0

\* s.rfind(c), 1-based; 0 when c does not occur (used by the faulty variants only)
rfind(s, c) == IF Contains(s, c) THEN CHOOSE i \in 1..Len(s) : s[i] = c /\ \A j \in (i + 1)..Len(s) : s[j] # c ELSE 0

\* s.split(c, 1) for an s that contains c: <<text before the first c, text after it>>
split1(s, c) == <<SubSeq(s, 1, find(s, c) - 1), SubSeq(s, find(s, c) + 1, Len(s))>>

\* s.rsplit(c, 1): splits at the last c (used by the faulty variants only)
rsplit1(s, c) == <<SubSeq(s, 1, rfind(s, c) - 1), SubSeq(s, rfind(s, c) + 1, Len(s))>>

\* s.startswith(p)
startswith(s, p) == Len(s) >= Len(p) /\ SubSeq(s, 1, Len(p)) = p

\* The body of an integer literal: digits, single underscores only between digits.
IntBody(b) ==
  /\ b # <<>>
  /\ \A i \in 1..Len(b) : b[i] \in Digits \cup {"_"}
  /\ b[1] \in Digits /\ b[Len(b)] \in Digits
  /\ \A i \in 1..(Len(b) - 1) : ~(b[i] = "_" /\ b[i + 1] = "_")

\* The most digits int() converts (sys.get_int_max_str_digits(), by default).
IntMaxStrDigits == 4300

\* The number of digits of a literal's body (the underscores are not counted).
digit_count(b) == Cardinality({i \in 1..Len(b) : b[i] \in Digits})

RECURSIVE int_lstrip(_)
int_lstrip(s) == IF s # <<>> /\ Head(s) \in IntWhitespace THEN int_lstrip(Tail(s)) ELSE s

RECURSIVE int_rstrip(_)
int_rstrip(s) ==
  IF s # <<>> /\ s[Len(s)] \in IntWhitespace THEN int_rstrip(SubSeq(s, 1, Len(s) - 1)) ELSE s

\* int(s) succeeds: surrounding whitespace, one optional sign, then a body of
\* at most IntMaxStrDigits digits.  int(s) raises ValueError otherwise.
int_ok(s) ==
  LET t == int_rstrip(int_lstrip(s))
      b == IF t # <<>> /\ t[1] \in {"+", "-"} THEN Tail(t) ELSE t
  IN  /\ t # <<>>
      /\ IntBody(b)
      /\ digit_count(b) <= IntMaxStrDigits

(***************************************************************************)
(* parse_comment_mapping (decode).                                         *)
(***************************************************************************)
EmptyRecord == [mapping |-> None, note |-> None]

\* Lines 14-15: the early return on a falsy or whitespace-only comment.
IsBlank(c) == ~Truthy(c) \/ strip(c) = <<>>

\* Faulty variant of note_part_of: rsplit instead of split.
note_rsplit(c) ==
  IF Contains(c, "#")
  THEN (IF strip(rsplit1(c, "#")[2]) # <<>> THEN strip(rsplit1(c, "#")[2]) ELSE None)
  ELSE None

\* Lines 20-25 (note side): the note taken from the stripped comment.
note_part_of(c) ==
  IF Contains(c, "#")
  THEN (IF strip(split1(c, "#")[2]) # <<>> THEN strip(split1(c, "#")[2]) ELSE None)
  ELSE None

\* Faulty variant of mapping_part_of: rsplit instead of split.
mapping_rsplit(c) == strip(IF Contains(c, "#") THEN rsplit1(c, "#")[1] ELSE c)

\* Lines 20-28 (mapping side): the stripped text before the first '#'.
mapping_part_of(c) == strip(IF Contains(c, "#") THEN split1(c, "#")[1] ELSE c)

\* Faulty variant of namespace_shape_ok: len(namespace) <= 3 rejected.
namespace_len_gt3(ns) == startswith(ns, <<"C", "A">>) /\ Len(ns) > 3

\* Lines 36-38: the prefix and length test of the namespace.
namespace_shape_ok(ns) == startswith(ns, <<"C", "A">>) /\ Len(ns) >= 3

\* Lines 41-42: the exception raised inside the try block, if any.
namespace_int_exc(ns) == IF int_ok(SubSeq(ns, 3, Len(ns))) THEN NoExc ELSE ValueError

\* Faulty variant of namespace_try_escapes: no except clause.
namespace_try_uncaught(ns) == namespace_int_exc(ns)

\* Lines 41-44: the try/except as a whole; what escapes it.
namespace_try_escapes(ns) ==
  IF namespace_int_exc(ns) = ValueError THEN NoExc ELSE namespace_int_exc(ns)

\* Faulty variant of symbol_ok: the colon test forgotten.
symbol_nonempty_only(sym) == sym # <<>>

\* Lines 46-48: the symbol test.
symbol_ok(sym) == sym # <<>> /\ ~Contains(sym, ":")

\* Faulty variant of parse_mapping: "return result" where the note is already set.
parse_mapping_keeps_note(c, n) ==
  LET mp == mapping_part_of(c)
  IN  IF ~Contains(mp, ":") THEN [mapping |-> None, note |-> n]
      ELSE LET ns  == strip(split1(mp, ":")[1])
               sym == strip(split1(mp, ":")[2])
           IN  IF ~namespace_shape_ok(ns) THEN EmptyRecord
               ELSE IF namespace_int_exc(ns) = ValueError THEN EmptyRecord
               ELSE IF ~symbol_ok(sym) THEN [mapping |-> None, note |-> n]
               ELSE [mapping |-> sym, note |-> n]

\* Lines 27-52, on the stripped comment c with the note n already computed.
parse_mapping(c, n) ==
  LET mp == mapping_part_of(c)
  IN  IF ~Contains(mp, ":") THEN EmptyRecord
      ELSE LET ns  == strip(split1(mp, ":")[1])
               sym == strip(split1(mp, ":")[2])
           IN  IF ~namespace_shape_ok(ns) THEN EmptyRecord
               ELSE IF namespace_int_exc(ns) = ValueError THEN EmptyRecord
               ELSE IF ~symbol_ok(sym) THEN EmptyRecord
               ELSE [mapping |-> sym, note |-> n]

\* Lines 10-52: the value parse_comment_mapping returns.
parse_comment_mapping(c) ==
  IF IsBlank(c) THEN EmptyRecord
  ELSE parse_mapping(strip(c), note_part_of(strip(c)))

\* x.strip() raises AttributeError on None and nothing on a str.
strip_exc(x) == IF x = None THEN AttributeError ELSE NoExc

\* Lines 10-52: the exception parse_comment_mapping lets escape (NoExc: none).
\* "not comment or not comment.strip()" short-circuits on a falsy comment.
parse_comment_mapping_exc(c) ==
  IF ~Truthy(c) THEN NoExc
  ELSE IF strip_exc(c) # NoExc THEN strip_exc(c)
  ELSE IF IsBlank(c) THEN NoExc
  ELSE LET mp == mapping_part_of(strip(c))
       IN  IF ~Contains(mp, ":") THEN NoExc
           ELSE IF ~namespace_shape_ok(strip(split1(mp, ":")[1])) THEN NoExc
           ELSE namespace_try_escapes(strip(split1(mp, ":")[1]))

(***************************************************************************)
(* build_comment_string (encode).                                          *)
(***************************************************************************)
DefaultNamespace == <<"C", "A", "0">>

\* Faulty variants of note_suffix: the '#' forgotten; the strip forgotten.
note_suffix_no_hash(n) == IF Truthy(n) /\ strip(n) # <<>> THEN <<" ">> \o strip(n) ELSE <<>>

note_suffix_raw(n) == IF Truthy(n) /\ strip(n) # <<>> THEN <<" ", "#">> \o n ELSE <<>>

\* Lines 63-65: the note suffix appended to "<namespace>:<symbol>".
note_suffix(n) == IF Truthy(n) /\ strip(n) # <<>> THEN <<" ", "#">> \o strip(n) ELSE <<>>

\* Faulty variant of build_comment_string: the note kept when the symbol is missing.
build_note_without_symbol(sym, n, ns) ==
  IF ~Truthy(sym) THEN note_suffix(n)
  ELSE ns \o <<":">> \o sym \o note_suffix(n)

\* Lines 55-67.
build_comment_string(sym, n, ns) ==
  IF ~Truthy(sym) THEN <<>>
  ELSE ns \o <<":">> \o sym \o note_suffix(n)

\* Lines 55-67: the exception build_comment_string lets escape (NoExc: none).
\* "note and note.strip()" short-circuits on a falsy note.
build_comment_string_exc(sym, n, ns) ==
  IF ~Truthy(sym) THEN NoExc
  ELSE IF Truthy(n) THEN strip_exc(n)
  ELSE NoExc

(***************************************************************************)
(* Inputs.                                                                 *)
(***************************************************************************)
Strings(A, n) == UNION {[1..k -> A] : k \in 0..n}

RawAlphabet == {"C", "A", "0", "-", ":", "#", " ", "\f", "L"}
TailAlphabet == {"0", "-", ":", "#", " ", "\f", "L"}
ScriptAlphabet == {"0", "\\u0663", "\\x1c"}
ArgAlphabet == {"L", ":", "#", " "}
NoteAlphabet == ArgAlphabet \cup {"\f"}

\* Comments "CA<suffix>:L" whose suffix has a digit of another script or a
\* separator that str.strip() drops and int() does not.
ScriptComments ==
  {<<"C", "A">> \o d \o <<":", "L">> \o n :
     d \in Strings(ScriptAlphabet, 2), n \in {<<>>, <<" ", "#", "L">>}}

\* Raw comments: every short string, every string "CA<tail>" with an
\* optional leading blank, and the comments above.
RawComments ==
  Strings(RawAlphabet, MaxLen)
    \cup {lead \o <<"C", "A">> \o t : lead \in {<<>>, <<" ">>}, t \in Strings(TailAlphabet, MaxTail)}
    \cup ScriptComments

Symbols == {None} \cup Strings(ArgAlphabet, MaxSym)
Notes == {None} \cup Strings(NoteAlphabet, MaxNote)
Namespaces == {DefaultNamespace, <<"C", "A", "1", "2">>, <<"X", "Y">>, <<>>}

(***************************************************************************)
(* The state machine: one input, then the operations applied to it.        *)
(***************************************************************************)
\* No service is involved: Inventor is not running and nothing was called.
SvcIdle ==
  /\ inventor = "not_running"
  /\ user_params = {}
  /\ Comment = <<>>
  /\ Value = <<>>
  /\ value_rejected = {}
  /\ mappings_prop = None
  /\ com = 0
  /\ calls = <<>>
  /\ ncalls = 0
  /\ response = <<>>

Init ==
  /\ pc = "start"
  /\ \/ comment \in RawComments /\ symbol = None /\ note = None /\ namespace = DefaultNamespace
     \/ comment = <<>> /\ symbol \in Symbols /\ note \in Notes /\ namespace \in Namespaces
  /\ parsed = EmptyRecord
  /\ built = <<>>
  /\ reparsed = EmptyRecord
  /\ raised = NoExc
  /\ SvcIdle

\* result = parse_comment_mapping(input_str)
Parse ==
  /\ pc = "start"
  /\ parsed' = parse_comment_mapping(comment)
  /\ raised' = parse_comment_mapping_exc(comment)
  /\ pc' = "parsed"
  /\ UNCHANGED <<comment, symbol, note, namespace, built, reparsed>>
  /\ UNCHANGED svc_vars

\* result = build_comment_string(symbol, note, namespace)
Build ==
  /\ pc = "start"
  /\ built' = build_comment_string(symbol, note, namespace)
  /\ raised' = build_comment_string_exc(symbol, note, namespace)
  /\ pc' = "built"
  /\ UNCHANGED <<comment, symbol, note, namespace, parsed, reparsed>>
  /\ UNCHANGED svc_vars

\* comment = build_comment_string(symbol, note); parsed = parse_comment_mapping(comment)
RoundTrip ==
  /\ pc = "start"
  /\ built' = build_comment_string(symbol, note, DefaultNamespace)
  /\ comment' = built'
  /\ parsed' = parse_comment_mapping(built')
  /\ raised' = IF build_comment_string_exc(symbol, note, DefaultNamespace) # NoExc
               THEN build_comment_string_exc(symbol, note, DefaultNamespace)
               ELSE parse_comment_mapping_exc(built')
  /\ pc' = "round_trip"
  /\ UNCHANGED <<symbol, note, namespace, reparsed>>
  /\ UNCHANGED svc_vars

\* The parsed record written back and read again:
\* parse_comment_mapping(build_comment_string(parsed["mapping"], parsed["note"]))
Reencode ==
  /\ pc = "parsed"
  /\ built' = build_comment_string(parsed.mapping, parsed.note, DefaultNamespace)
  /\ reparsed' = parse_comment_mapping(built')
  /\ raised' = IF build_comment_string_exc(parsed.mapping, parsed.note, DefaultNamespace) # NoExc
               THEN build_comment_string_exc(parsed.mapping, parsed.note, DefaultNamespace)
               ELSE parse_comment_mapping_exc(built')
  /\ pc' = "reparsed"
  /\ UNCHANGED <<comment, symbol, note, namespace, parsed>>
  /\ UNCHANGED svc_vars

Next == Parse \/ Build \/ RoundTrip \/ Reencode

Spec == Init /\ [][Next]_vars

(***************************************************************************)
(* The codec of the service (src/inventor_api.py), in the earlier          *)
(* "#AC:symbol #Note:{{text}}" format.                                     *)
(***************************************************************************)
TagAC == <<"#", "A", "C", ":">>
TagNote == <<"#", "N", "o", "t", "e", ":">>
Braces == {"{", "}"}

\* s.replace(c + c, ''): every non-overlapping doubled c removed, left to right.
RECURSIVE remove_double(_, _)
remove_double(s, c) ==
  IF Len(s) < 2 THEN s
  ELSE IF s[1] = c /\ s[2] = c THEN remove_double(SubSeq(s, 3, Len(s)), c)
  ELSE <<s[1]>> \o remove_double(Tail(s), c)

\* s.strip('{}')
RECURSIVE strip_braces(_)
strip_braces(s) ==
  IF s # <<>> /\ s[1] \in Braces THEN strip_braces(Tail(s))
  ELSE IF s # <<>> /\ s[Len(s)] \in Braces THEN strip_braces(SubSeq(s, 1, Len(s) - 1))
  ELSE s

\* s.split(): the maximal runs of non-whitespace characters, in order.
RECURSIVE py_split(_)
py_split(s) ==
  LET t == lstrip(s)
  IN  IF t = <<>> THEN <<>>
      ELSE LET n == IF \E i \in 1..Len(t) : t[i] \in Whitespace
                    THEN (CHOOSE i \in 1..Len(t) :
                            t[i] \in Whitespace /\ \A j \in 1..(i - 1) : t[j] \notin Whitespace) - 1
                    ELSE Len(t)
           IN  <<SubSeq(t, 1, n)>> \o py_split(SubSeq(t, n + 1, Len(t)))

\* ' '.join(parts)
RECURSIVE join_blank(_)
join_blank(parts) ==
  IF parts = <<>> THEN <<>>
  ELSE IF Len(parts) = 1 THEN parts[1]
  ELSE parts[1] \o <<" ">> \o join_blank(Tail(parts))

\* inventor_api.py lines 56: the note with "{{" and "}}" removed, stripped.
clean_note(n) == strip(remove_double(remove_double(n, "{"), "}"))

\* Faulty variant of api_build_comment_string: the "if symbol:" test forgotten.
api_build_tag_always(sym, n) ==
  join_blank(
    <<TagAC \o (IF sym = None THEN <<"N", "o", "n", "e">> ELSE sym)>>
      \o (IF Truthy(n) /\ clean_note(n) # <<>>
          THEN <<TagNote \o <<"{", "{">> \o clean_note(n) \o <<"}", "}">> >>
          ELSE <<>>))

\* inventor_api.py lines 37-60.
api_build_comment_string(sym, n) ==
  join_blank(
    (IF Truthy(sym) THEN <<TagAC \o sym>> ELSE <<>>)
      \o (IF Truthy(n) /\ clean_note(n) # <<>>
          THEN <<TagNote \o <<"{", "{">> \o clean_note(n) \o <<"}", "}">> >>
          ELSE <<>>))

\* inventor_api.py lines 26-32: the loop over the parts, the record r updated in order.
RECURSIVE api_parse_parts(_, _)
api_parse_parts(parts, r) ==
  IF parts = <<>> THEN r
  ELSE LET part == Head(parts)
       IN  api_parse_parts(Tail(parts),
             IF startswith(part, TagAC)
             THEN [r EXCEPT !.mapping = SubSeq(part, 5, Len(part))]
             ELSE IF startswith(part, TagNote)
             THEN [r EXCEPT !.note = strip_braces(SubSeq(part, 7, Len(part)))]
             ELSE r)

\* inventor_api.py lines 7-34.
api_parse_comment_mapping(c) ==
  IF ~Truthy(c) THEN EmptyRecord ELSE api_parse_parts(py_split(c), EmptyRecord)

(***************************************************************************)
(* Comments written in the earlier format, read by the current parser.     *)
(***************************************************************************)
LegacyAlphabet == {"L", " ", "\f", "{", "}", ":"}
LegacySymbols == {None} \cup Strings(LegacyAlphabet, MaxSym)
LegacyNotes == {None} \cup Strings(LegacyAlphabet, MaxNote)

\* Comments whose first non-whitespace character is '#'.
HashComments ==
  {lead \o <<"#">> \o t : lead \in {<<>>, <<" ">>, <<"\t", " ">>}, t \in Strings(TailAlphabet \cup {"C", "A"}, MaxLen + 1)}

LegacyInit ==
  /\ pc = "start"
  /\ \/ comment \in HashComments /\ symbol = None /\ note = None
     \/ comment = <<>> /\ symbol \in LegacySymbols /\ note \in LegacyNotes
  /\ namespace = DefaultNamespace
  /\ parsed = EmptyRecord
  /\ built = <<>>
  /\ reparsed = EmptyRecord
  /\ raised = NoExc
  /\ SvcIdle

\* A comment built by the service's build_comment_string, decoded by the
\* current parse_comment_mapping.
LegacyDecode ==
  /\ pc = "start"
  /\ built' = api_build_comment_string(symbol, note)
  /\ comment' = built'
  /\ parsed' = parse_comment_mapping(built')
  /\ raised' = parse_comment_mapping_exc(built')
  /\ pc' = "legacy_decoded"
  /\ UNCHANGED <<symbol, note, namespace, reparsed>>
  /\ UNCHANGED svc_vars

LegacyNext == LegacyDecode \/ Parse

SpecLegacy == LegacyInit /\ [][LegacyNext]_vars

(***************************************************************************)
(* The service: src/inventor_api.py over the active Inventor document, and *)
(* the HTTP handlers of src/main.py.                                       *)
(*                                                                         *)
(* inventor       "not_running": GetActiveObject raises;                   *)
(*                "no_document": ActiveDocument is None;                   *)
(*                "drawing": a document without ComponentDefinition;       *)
(*                "part": a part or assembly with parameters.              *)
(* user_params    the names of the document's user parameters.             *)
(* Comment, Value the Comment and Value of the document's parameters.      *)
(* value_rejected the parameters whose Value assignment Inventor refuses.  *)
(* mappings_prop  the custom property "CalcsLiveMappings" (None: absent).  *)
(* com            the COM sessions acquired and not yet released.          *)
(* calls          per request thread, the call it is inside and where.     *)
(* ncalls         the requests received.                                   *)
(* response       what the step just taken returned to its caller.         *)
(*                                                                         *)
(* The handlers are plain functions, which the server runs on the threads  *)
(* of a pool, and no lock is taken: between two calls on Inventor of one   *)
(* request, another request may read or write the document.                *)
(*                                                                         *)
(* An Optional[float] is a sequence of at most one number: <<>> is None.   *)
(***************************************************************************)
MaxValue == 1
MaxCalls == 2

\* The user parameters of the document when the service starts, the name a
\* create request may add, and a calculated (model) parameter.
UserParams == {"Length", "Width"}
NewParams == {"Ghost"}
ModelParams == {"d0"}

\* The order in which the UserParameters collection enumerates: creation order.
ParamOrder == <<"Length", "Width", "Ghost">>

\* The parameters of the document: Parameters.Item(name) finds these.
AllParams == user_params \cup ModelParams

\* The "name" of a request: absent, empty, a user parameter, a calculated
\* parameter, or a name that is no parameter until it is created.
NoName == "<None>"
NameArgs == {NoName, ""} \cup UserParams \cup NewParams \cup ModelParams

\* The values of the requests; every parameter starts at 0.
Values == 1..MaxValue
NoValue == <<>>
ValueArgs == {NoValue} \cup {<<v>> : v \in Values}

NoUnit == "<None>"
Units == [p \in UserParams \cup NewParams \cup ModelParams |-> "mm"]
UnitArgs == {NoUnit, "mm", "in"}

ApiSymbols == {None, <<"L">>}
ApiNotes == {None, <<"L", " ", "L">>}
\* JSON texts of mappings, as json.dumps gives them.
MappingsArgs == {<<"{", "}">>}

\* Comments found in a document when the service starts.
DocComments == {<<>>, <<"C", "A", "0", ":", "L">>, TagAC \o <<"L">>}

\* The "comment" of a create request.
CreateComments == {<<>>, <<"C", "A", "0", ":", "L">>}

\* The request threads of the server: each runs one handler at a time.
Workers == {1, 2}

ErrNoDocument == "No active Inventor document"
ErrNoComponentDefinition == "Document does not have ComponentDefinition"
ErrUserParamNotFound == "User Parameter not found"
ErrParamNotFound == "Parameter not found"
ErrReadOnly == "Parameter is read-only (calculated)"
ErrValue == "Failed to update value"
ErrProps == "Failed to access custom properties"
ErrSaveProps == "Failed to save custom properties"
ErrNameRequired == "Parameter 'name' is required"
ErrCom == "str(e)"
ErrUnboundLocal == "cannot access local variable 'param_name' where it is not associated with a value"
NoError == ""

NoParameters == <<>>

\* The outcome of a call.  The "mapping" and "note" echoed are present only in
\* the returns that carry them (inventor_api.py lines 324-341); value_arg is
\* the value argument of such a call; "comment" and "value" are those of the
\* returns of update_parameter_mapping that carry them, none otherwise.
Resp(op, name, ex, err, status, called, sym, n, value, params) ==
  [op |-> op, name |-> name, exit |-> ex, success |-> (ex \in {"success", "no_property"}),
   error |-> err, status |-> status, called |-> called,
   mapping |-> IF ex \in {"success", "value_failed"} THEN sym ELSE None,
   note |-> IF ex \in {"success", "value_failed"} THEN n ELSE None,
   value_arg |-> IF ex \in {"success", "value_failed"} THEN value ELSE NoValue,
   comment |-> None, value |-> NoValue,
   parameters |-> params]

\* The step taken returned nothing to a caller.
NoResponse == Resp("none", NoName, "success", NoError, "-", FALSE, None, None, NoValue, NoParameters)

\* A thread that runs no handler.
Idle ==
  [op |-> "idle", pc |-> "idle", name |-> NoName, mapping |-> None, note |-> None,
   value |-> NoValue, comment |-> None, visited |-> {}, parameters |-> NoParameters,
   mappings_json |-> None]

\* A thread inside update_parameter_mapping(name, sym, n, value), at pc;
\* "comment" is the param.Comment it has read back for its result.
MappingCall(op, name, sym, n, value, at) ==
  [op |-> op, pc |-> at, name |-> name, mapping |-> sym, note |-> n,
   value |-> value, comment |-> None, visited |-> {}, parameters |-> NoParameters,
   mappings_json |-> None]

\* A thread inside the loop of get_user_parameters: the parameters visited,
\* the result list so far, and the local param_name (NoName: not yet bound).
ReadCall(visited, params, param_name) ==
  [op |-> "get_user_parameters", pc |-> "loop", name |-> param_name, mapping |-> None, note |-> None,
   value |-> NoValue, comment |-> None, visited |-> visited, parameters |-> params,
   mappings_json |-> None]

\* A thread inside save_mappings with the JSON text m, at pc: "update" when
\* its look-up found the property, "add" when it did not.
SaveCall(m, at) ==
  [op |-> "save_mappings", pc |-> at, name |-> NoName, mapping |-> None, note |-> None,
   value |-> NoValue, comment |-> None, visited |-> {}, parameters |-> NoParameters,
   mappings_json |-> m]

Busy == {w \in Workers : calls[w] # Idle}

\* The thread that takes a request: the threads are interchangeable, so the
\* first idle one.
Free(w) == calls[w] = Idle /\ \A v \in Workers : calls[v] = Idle => w <= v

\* inventor_api.py: the error text of each way out of a function.
ErrorOf(fn, ex) ==
  CASE ex = "success" -> NoError
    [] ex = "no_property" -> NoError
    [] ex = "exception" -> ErrCom
    [] ex = "unbound_local" -> ErrUnboundLocal
    [] ex = "no_document" -> ErrNoDocument
    [] ex = "no_component_definition" -> ErrNoComponentDefinition
    [] ex = "not_found" -> (IF fn = "update_fx_parameter" THEN ErrParamNotFound ELSE ErrUserParamNotFound)
    [] ex = "read_only" -> ErrReadOnly
    [] ex = "value_failed" -> ErrValue
    [] ex = "props_failed" -> (IF fn = "save_mappings" THEN ErrSaveProps ELSE ErrProps)

\* Faulty variant of com_released: CoUninitialize at the end of the body, no finally.
com_released_at_end_only(ex) == IF ex = "success" THEN 1 ELSE 0

\* inventor_api.py lines 200-201, 270-271, 349-350, 403-404, 459-460: the
\* number of CoUninitialize calls on the way out ex (the finally clause).
com_released(ex) == 1

\* CoInitialize before the try, the body, then the finally clause, for a
\* call that runs from its first line to its return in one step.
com_after(ex) == (com + 1) - com_released(ex)

\* inventor_api.py lines 98-116: the way get_user_parameters leaves before
\* its loop ("loop": it does not).
get_user_parameters_exit ==
  IF inventor = "not_running" THEN "exception"
  ELSE IF inventor = "no_document" THEN "no_document"
  ELSE IF inventor = "drawing" THEN "no_component_definition"
  ELSE "loop"

\* The place of a name in the enumeration order.
Position(p) == CHOOSE i \in 1..Len(ParamOrder) : ParamOrder[i] = p

\* inventor_api.py line 119: the parameter the enumeration gives next.
next_param(visited) ==
  CHOOSE p \in user_params \ visited : \A q \in user_params \ visited : Position(p) <= Position(q)

\* What reading a parameter's properties can do: give them, find no Comment
\* attribute (line 126: ""), raise at param.Name (line 122), or raise after
\* param_name was assigned (lines 123-166).
ReadOutcomes == {"read", "no_attribute", "name_raises", "raises"}

\* inventor_api.py lines 183-186: the way out of the loop body.  The handler
\* formats param_name into its warning: when no iteration has assigned it
\* yet, that raises UnboundLocalError, which leaves the loop for the except
\* clause of lines 194-199; otherwise the parameter is skipped.
loop_body_exit(param_name, outcome) ==
  IF outcome \in {"read", "no_attribute"} THEN "appended"
  ELSE IF outcome = "name_raises" /\ param_name = NoName THEN "unbound_local"
  ELSE "skipped"

\* inventor_api.py line 122: param_name after the loop body ran for p.
param_name_after(param_name, p, outcome) ==
  IF outcome = "name_raises" THEN param_name ELSE p

\* inventor_api.py lines 126, 166-179: the entry of a parameter whose comment
\* was read as c, parsed by the service's parse_comment_mapping.
get_user_parameters_entry(c) ==
  [comment |-> c,
   mapping |-> api_parse_comment_mapping(c).mapping,
   note |-> api_parse_comment_mapping(c).note]

\* inventor_api.py lines 119-186: the result list after the loop body ran
\* for parameter p.
get_user_parameters_append(params, p, outcome) ==
  IF outcome \in {"raises", "name_raises"} THEN params
  ELSE [q \in (DOMAIN params) \cup {p} |->
          IF q = p
          THEN get_user_parameters_entry(IF outcome = "read" THEN Comment[p] ELSE <<>>)
          ELSE params[q]]

\* inventor_api.py lines 293-308: the way update_parameter_mapping leaves
\* before its first write ("found": it does not).
update_parameter_mapping_exit(name) ==
  IF inventor = "not_running" THEN "exception"
  ELSE IF inventor = "no_document" THEN "no_document"
  ELSE IF inventor = "drawing" THEN "exception"
  ELSE IF name \notin user_params THEN "not_found"
  ELSE "found"

\* inventor_api.py lines 317-331: the outcome of param.Value = value.
value_assignment_exit(name) == IF name \in value_rejected THEN "value_failed" ELSE "success"

\* Faulty variant of comment_after_refusal: the comment cleared when the value fails.
comment_cleared_on_refusal(c) == <<>>

\* inventor_api.py lines 321-331: the comment after a refused value (no roll-back).
comment_after_refusal(c) == c

\* inventor_api.py lines 227-271: the way out of update_fx_parameter.
update_fx_parameter_exit(name) ==
  IF inventor = "not_running" THEN "exception"
  ELSE IF inventor = "no_document" THEN "no_document"
  ELSE IF inventor = "drawing" THEN "exception"
  ELSE IF name \notin AllParams THEN "not_found"
  ELSE IF name \in ModelParams THEN "read_only"
  ELSE IF name \in value_rejected THEN "exception"
  ELSE "success"

\* inventor_api.py lines 360-404: the way out of get_mappings; fault: the
\* property set cannot be reached.
get_mappings_exit(fault) ==
  IF inventor = "not_running" THEN "exception"
  ELSE IF inventor = "no_document" THEN "no_document"
  ELSE IF fault THEN "props_failed"
  ELSE IF mappings_prop = None THEN "no_property"
  ELSE "success"

\* inventor_api.py lines 417-436: the way save_mappings leaves before it
\* writes; fault: the property set cannot be reached.  Otherwise the look-up
\* custom_props.Item("CalcsLiveMappings") finds the property ("update") or
\* raises ("add").
save_mappings_exit(fault) ==
  IF inventor = "not_running" THEN "exception"
  ELSE IF inventor = "no_document" THEN "no_document"
  ELSE IF fault THEN "props_failed"
  ELSE IF mappings_prop = None THEN "add"
  ELSE "update"

\* inventor_api.py lines 440-451: the outcome of custom_props.Add: a property
\* set refuses a name it already holds.
add_property_exit == IF mappings_prop = None THEN "success" ELSE "props_failed"

\* create_user_parameter(name, value, comment, unit), which main.py imports
\* from inventor_api: the way out.  A new user parameter is added to a part
\* unless the name is taken or Inventor refuses (fault).
create_user_parameter_exit(name, fault) ==
  IF inventor = "not_running" THEN "exception"
  ELSE IF inventor = "no_document" THEN "no_document"
  ELSE IF inventor = "drawing" THEN "exception"
  ELSE IF name \in AllParams \/ fault THEN "exception"
  ELSE "success"

\* Faulty variant of name_missing: only an absent name refused.
name_absent_only(name) == name = NoName

\* main.py lines 100, 122, 155: "if not name".
name_missing(name) == name = NoName \/ name = ""

\* main.py lines 105-108, 128-131, 160-163: the status of a request.
mapping_status(ex) == IF ex = "success" THEN "200" ELSE "400"

(***************************************************************************)
(* The service's state machine.  A handler whose calls on Inventor all     *)
(* read, or that writes once, is one step; update_parameter_mapping,       *)
(* save_mappings and get_user_parameters are one step per read or write    *)
(* of the document that another request can change, and the steps of two   *)
(* threads interleave.                                                     *)
(***************************************************************************)
SvcInit ==
  /\ inventor \in {"not_running", "no_document", "drawing", "part"}
  /\ user_params = UserParams
  /\ \E c \in DocComments : Comment = [p \in UserParams |-> c]
  /\ Value = [p \in UserParams \cup ModelParams |-> 0]
  /\ value_rejected = {"Width"}
  /\ mappings_prop = None
  /\ com = 0
  /\ calls = [w \in Workers |-> Idle]
  /\ ncalls = 0
  /\ response = NoResponse
  /\ pc = "service"
  /\ comment = <<>> /\ symbol = None /\ note = None /\ namespace = DefaultNamespace
  /\ parsed = EmptyRecord /\ built = <<>> /\ reparsed = EmptyRecord /\ raised = NoExc

\* A request arrives: at most MaxCalls of them.
Request == ncalls < MaxCalls /\ ncalls' = ncalls + 1

\* inventor_api.get_user_parameters(), lines 98-117: up to the loop.
GetUserParameters(w) ==
  LET ex == get_user_parameters_exit
  IN  /\ Request
      /\ Free(w)
      /\ IF ex = "loop"
         THEN /\ calls' = [calls EXCEPT ![w] = ReadCall({}, NoParameters, NoName)]
              /\ com' = com + 1
              /\ response' = NoResponse
         ELSE /\ response' = Resp("get_user_parameters", NoName, ex, ErrorOf("get_user_parameters", ex),
                                  "-", TRUE, None, None, NoValue, NoParameters)
              /\ com' = com_after(ex)
              /\ UNCHANGED calls
      /\ UNCHANGED <<inventor, user_params, Comment, Value, value_rejected, mappings_prop>>
      /\ UNCHANGED codec_vars

\* inventor_api.get_user_parameters(), lines 119-186: the loop body, once,
\* and the return of lines 194-201 when its handler raises.
ReadParameter(w) ==
  /\ calls[w].op = "get_user_parameters"
  /\ user_params \ calls[w].visited # {}
  /\ \E outcome \in ReadOutcomes :
       LET p  == next_param(calls[w].visited)
           ex == loop_body_exit(calls[w].name, outcome)
       IN  IF ex = "unbound_local"
           THEN /\ response' = Resp("get_user_parameters", NoName, ex, ErrorOf("get_user_parameters", ex),
                                    "-", TRUE, None, None, NoValue, NoParameters)
                /\ calls' = [calls EXCEPT ![w] = Idle]
                /\ com' = com - com_released(ex)
           ELSE /\ calls' = [calls EXCEPT ![w] =
                               ReadCall(calls[w].visited \cup {p},
                                        get_user_parameters_append(calls[w].parameters, p, outcome),
                                        param_name_after(calls[w].name, p, outcome))]
                /\ response' = NoResponse
                /\ UNCHANGED com
  /\ UNCHANGED <<inventor, user_params, Comment, Value, value_rejected, mappings_prop, ncalls>>
  /\ UNCHANGED codec_vars

\* inventor_api.get_user_parameters(), lines 188-201: the loop is over.
ReturnParameters(w) ==
  /\ calls[w].op = "get_user_parameters"
  /\ user_params \ calls[w].visited = {}
  /\ response' = Resp("get_user_parameters", NoName, "success", NoError, "-", TRUE,
                      None, None, NoValue, calls[w].parameters)
  /\ calls' = [calls EXCEPT ![w] = Idle]
  /\ com' = com - com_released("success")
  /\ UNCHANGED <<inventor, user_params, Comment, Value, value_rejected, mappings_prop, ncalls>>
  /\ UNCHANGED codec_vars

\* inventor_api.update_fx_parameter(name, value, unit)
UpdateFxParameter ==
  \E name \in NameArgs \ {NoName} :
    LET ex == update_fx_parameter_exit(name)
    IN  /\ Request
        /\ IF ex # "success" THEN UNCHANGED Value
           ELSE \E v \in Values, unit \in UnitArgs :
                  IF unit # NoUnit /\ unit # Units[name]
                  THEN \E converted \in Values : Value' = [Value EXCEPT ![name] = converted]
                  ELSE Value' = [Value EXCEPT ![name] = v]
        /\ response' = Resp("update_fx_parameter", name, ex, ErrorOf("update_fx_parameter", ex), "-", TRUE,
                            None, None, NoValue, NoParameters)
        /\ com' = com_after(ex)
        /\ UNCHANGED <<inventor, user_params, Comment, value_rejected, mappings_prop, calls>>
        /\ UNCHANGED codec_vars

\* update_parameter_mapping(name, sym, n, value) called by the handler op on
\* thread w, lines 293-312: up to and with param.Comment = new_comment.
UpdateParameterMapping(w, op, name, sym, n, value) ==
  LET ex == update_parameter_mapping_exit(name)
  IN  IF ex = "found"
      THEN /\ Comment' = [Comment EXCEPT ![name] = api_build_comment_string(sym, n)]
           /\ calls' = [calls EXCEPT ![w] =
                          MappingCall(op, name, sym, n, value,
                                      IF value # NoValue THEN "value" ELSE "result")]
           /\ com' = com + 1
           /\ response' = NoResponse
      ELSE /\ response' = Resp(op, name, ex, ErrorOf("update_parameter_mapping", ex),
                               mapping_status(ex), TRUE, sym, n, value, NoParameters)
           /\ com' = com_after(ex)
           /\ UNCHANGED <<Comment, calls>>

\* main.set_parameter_mapping(data): POST /inventor/parameters/mapping, up
\* to the first write of the update_parameter_mapping it calls.
SetParameterMapping(w) ==
  \E name \in NameArgs :
    /\ Request
    /\ Free(w)
    /\ IF name_missing(name)
       THEN /\ response' = Resp("set_parameter_mapping", name, "name_required", ErrNameRequired, "400", FALSE,
                                None, None, NoValue, NoParameters)
            /\ UNCHANGED <<Comment, calls, com>>
       ELSE \E sym \in ApiSymbols, n \in ApiNotes, value \in ValueArgs :
              UpdateParameterMapping(w, "set_parameter_mapping", name, sym, n, value)
    /\ UNCHANGED <<inventor, user_params, Value, value_rejected, mappings_prop>>
    /\ UNCHANGED codec_vars

\* main.remove_parameter_mapping(data): DELETE /inventor/parameters/mapping,
\* up to the first write of the update_parameter_mapping(name, symbol=None,
\* note=None) it calls.
RemoveParameterMapping(w) ==
  \E name \in NameArgs :
    /\ Request
    /\ Free(w)
    /\ IF name_missing(name)
       THEN /\ response' = Resp("remove_parameter_mapping", name, "name_required", ErrNameRequired, "400", FALSE,
                                None, None, NoValue, NoParameters)
            /\ UNCHANGED <<Comment, calls, com>>
       ELSE UpdateParameterMapping(w, "remove_parameter_mapping", name, None, None, NoValue)
    /\ UNCHANGED <<inventor, user_params, Value, value_rejected, mappings_prop>>
    /\ UNCHANGED codec_vars

\* update_parameter_mapping, lines 317-331: param.Value = value, and the
\* return of the except clause when Inventor refuses it.
WriteValue(w) ==
  LET c  == calls[w]
      ex == value_assignment_exit(c.name)
  IN  /\ c.op \in {"set_parameter_mapping", "remove_parameter_mapping"}
      /\ c.pc = "value"
      /\ IF ex = "value_failed"
         THEN /\ Comment' = [Comment EXCEPT ![c.name] = comment_after_refusal(Comment[c.name])]
              /\ response' = [Resp(c.op, c.name, ex, ErrorOf("update_parameter_mapping", ex),
                                   mapping_status(ex), TRUE, c.mapping, c.note, c.value, NoParameters)
                                EXCEPT !.comment = api_build_comment_string(c.mapping, c.note)]
              /\ calls' = [calls EXCEPT ![w] = Idle]
              /\ com' = com - com_released(ex)
              /\ UNCHANGED Value
         ELSE /\ Value' = [Value EXCEPT ![c.name] = c.value[1]]
              /\ calls' = [calls EXCEPT ![w].pc = "result"]
              /\ response' = NoResponse
              /\ UNCHANGED <<Comment, com>>
      /\ UNCHANGED <<inventor, user_params, value_rejected, mappings_prop, ncalls>>
      /\ UNCHANGED codec_vars

\* update_parameter_mapping, lines 333-336: the success result is being
\* built, "comment": param.Comment.
ReadBackComment(w) ==
  LET c == calls[w]
  IN  /\ c.op \in {"set_parameter_mapping", "remove_parameter_mapping"}
      /\ c.pc = "result"
      /\ calls' = [calls EXCEPT ![w].pc = "return", ![w].comment = Comment[c.name]]
      /\ response' = NoResponse
      /\ UNCHANGED <<inventor, user_params, Comment, Value, value_rejected, mappings_prop, com, ncalls>>
      /\ UNCHANGED codec_vars

\* update_parameter_mapping, lines 339-350: "value": param.Value, and the
\* return of the success result.
ReturnMapping(w) ==
  LET c == calls[w]
  IN  /\ c.op \in {"set_parameter_mapping", "remove_parameter_mapping"}
      /\ c.pc = "return"
      /\ response' = [Resp(c.op, c.name, "success", NoError, mapping_status("success"), TRUE,
                           c.mapping, c.note, c.value, NoParameters)
                        EXCEPT !.comment = c.comment, !.value = <<Value[c.name]>>]
      /\ calls' = [calls EXCEPT ![w] = Idle]
      /\ com' = com - com_released("success")
      /\ UNCHANGED <<inventor, user_params, Comment, Value, value_rejected, mappings_prop, ncalls>>
      /\ UNCHANGED codec_vars

\* main.create_parameter(data): POST /inventor/parameters/create, with the
\* create_user_parameter(name, value, comment, unit) it calls; stored is the
\* value Inventor keeps for the new parameter.
CreateParameter ==
  \E name \in NameArgs, fault \in BOOLEAN :
    /\ Request
    /\ IF name_missing(name)
       THEN /\ response' = Resp("create_parameter", name, "name_required", ErrNameRequired, "400", FALSE,
                                None, None, NoValue, NoParameters)
            /\ UNCHANGED <<user_params, Comment, Value>>
       ELSE LET ex == create_user_parameter_exit(name, fault)
            IN  /\ response' = Resp("create_parameter", name, ex, ErrorOf("create_user_parameter", ex),
                                    mapping_status(ex), TRUE, None, None, NoValue, NoParameters)
                /\ IF ex = "success"
                   THEN \E c \in CreateComments, stored \in Values :
                          /\ user_params' = user_params \cup {name}
                          /\ Comment' = [p \in user_params \cup {name} |-> IF p = name THEN c ELSE Comment[p]]
                          /\ Value' = [p \in AllParams \cup {name} |-> IF p = name THEN stored ELSE Value[p]]
                   ELSE UNCHANGED <<user_params, Comment, Value>>
    /\ UNCHANGED <<inventor, value_rejected, mappings_prop, com, calls>>
    /\ UNCHANGED codec_vars

\* inventor_api.get_mappings(): it reads the property once and writes
\* nothing.
GetMappings ==
  \E fault \in BOOLEAN :
    LET ex == get_mappings_exit(fault)
    IN  /\ Request
        /\ response' = Resp("get_mappings", NoName, ex, ErrorOf("get_mappings", ex), "-", TRUE,
                            None, None, NoValue, NoParameters)
        /\ com' = com_after(ex)
        /\ UNCHANGED <<inventor, user_params, Comment, Value, value_rejected, mappings_prop, calls>>
        /\ UNCHANGED codec_vars

\* inventor_api.save_mappings(mappings), lines 417-436: up to and with the
\* look-up of the property.
SaveMappings(w) ==
  \E m \in MappingsArgs, fault \in BOOLEAN :
    LET ex == save_mappings_exit(fault)
    IN  /\ Request
        /\ Free(w)
        /\ IF ex \in {"add", "update"}
           THEN /\ calls' = [calls EXCEPT ![w] = SaveCall(m, ex)]
                /\ com' = com + 1
                /\ response' = NoResponse
           ELSE /\ response' = Resp("save_mappings", NoName, ex, ErrorOf("save_mappings", ex), "-", TRUE,
                                    None, None, NoValue, NoParameters)
                /\ com' = com_after(ex)
                /\ UNCHANGED calls
        /\ UNCHANGED <<inventor, user_params, Comment, Value, value_rejected, mappings_prop>>
        /\ UNCHANGED codec_vars

\* save_mappings, lines 437-445: prop.Value = mappings_json on the property
\* found, and the return; refused: the assignment raises, and the bare
\* except of line 438 goes on to the Add of line 440.
UpdateProperty(w) ==
  LET c == calls[w]
  IN  /\ c.op = "save_mappings"
      /\ c.pc = "update"
      /\ \E refused \in BOOLEAN :
           IF refused
           THEN /\ calls' = [calls EXCEPT ![w].pc = "add"]
                /\ response' = NoResponse
                /\ UNCHANGED <<mappings_prop, com>>
           ELSE /\ mappings_prop' = c.mappings_json
                /\ response' = Resp("save_mappings", NoName, "success", NoError, "-", TRUE,
                                    None, None, NoValue, NoParameters)
                /\ calls' = [calls EXCEPT ![w] = Idle]
                /\ com' = com - com_released("success")
      /\ UNCHANGED <<inventor, user_params, Comment, Value, value_rejected, ncalls>>
      /\ UNCHANGED codec_vars

\* save_mappings, lines 438-451: custom_props.Add(mappings_json,
\* "CalcsLiveMappings") after a look-up that raised, and the return.
AddProperty(w) ==
  LET c  == calls[w]
      ex == add_property_exit
  IN  /\ c.op = "save_mappings"
      /\ c.pc = "add"
      /\ mappings_prop' = IF ex = "success" THEN c.mappings_json ELSE mappings_prop
      /\ response' = Resp("save_mappings", NoName, ex, ErrorOf("save_mappings", ex), "-", TRUE,
                          None, None, NoValue, NoParameters)
      /\ calls' = [calls EXCEPT ![w] = Idle]
      /\ com' = com - com_released(ex)
      /\ UNCHANGED <<inventor, user_params, Comment, Value, value_rejected, ncalls>>
      /\ UNCHANGED codec_vars

SvcNext ==
  \/ \E w \in Workers : GetUserParameters(w)
  \/ \E w \in Workers : ReadParameter(w)
  \/ \E w \in Workers : ReturnParameters(w)
  \/ UpdateFxParameter
  \/ \E w \in Workers : SetParameterMapping(w)
  \/ \E w \in Workers : RemoveParameterMapping(w)
  \/ \E w \in Workers : WriteValue(w)
  \/ \E w \in Workers : ReadBackComment(w)
  \/ \E w \in Workers : ReturnMapping(w)
  \/ CreateParameter
  \/ GetMappings
  \/ \E w \in Workers : SaveMappings(w)
  \/ \E w \in Workers : UpdateProperty(w)
  \/ \E w \in Workers : AddProperty(w)

SpecService == SvcInit /\ [][SvcNext]_vars

(***************************************************************************)
(* Vocabulary of the properties, stated on the raw text independently of   *)
(* the parser's own intermediate values.                                   *)
(***************************************************************************)
\* The text before the first '#' (all of s when it has none).
BeforeFirstHash(s) == IF Contains(s, "#") THEN SubSeq(s, 1, find(s, "#") - 1) ELSE s

\* The text after the first '#' of an s that has one.
AfterFirstHash(s) == SubSeq(s, find(s, "#") + 1, Len(s))

\* The text before / after the first ':' of an s that has one.
BeforeFirstColon(s) == SubSeq(s, 1, find(s, ":") - 1)
AfterFirstColon(s) == SubSeq(s, find(s, ":") + 1, Len(s))

\* "CA" followed by one or more decimal digits.
IsCADigits(ns) ==
  /\ Len(ns) >= 3
  /\ ns[1] = "C" /\ ns[2] = "A"
  /\ \A i \in 3..Len(ns) : ns[i] \in Digits

\* No leading or trailing whitespace.
IsTrimmed(s) == s = <<>> \/ (s[1] \notin Whitespace /\ s[Len(s)] \notin Whitespace)

\* A note that is absent, empty, or has no leading/trailing whitespace.
NoteAdmissible(n) == n = None \/ IsTrimmed(n)

\* The note a round trip is expected to give back.
NoteBack(n) == IF Truthy(n) THEN n ELSE None

\* A record a successful decode may return.
ValidRecord(r) ==
  /\ r.mapping # None /\ r.mapping # <<>> /\ ~Contains(r.mapping, ":")
  /\ r.note = None \/ (r.note # <<>> /\ IsTrimmed(r.note))

(***************************************************************************)
(* C1  Round trip.                                                         *)
(***************************************************************************)
\* C1 as stated: for every non-empty symbol without a colon and every note
\* that is absent, empty or trimmed, decode(encode(symbol, note)) is
\* {symbol, note} (note none when absent or empty).
C1_RoundTrip_AsStated ==
  (pc = "round_trip" /\ Truthy(symbol) /\ ~Contains(symbol, ":") /\ NoteAdmissible(note))
    => parsed = [mapping |-> symbol, note |-> NoteBack(note)]

\* C1 (amended): the round trip of C1 holds for every symbol that is
\* non-empty, contains neither a colon nor a '#', and has no leading or
\* trailing whitespace, and every note that is absent, empty or trimmed.
C1_RoundTrip ==
  (/\ pc = "round_trip"
   /\ Truthy(symbol) /\ ~Contains(symbol, ":") /\ ~Contains(symbol, "#") /\ IsTrimmed(symbol)
   /\ NoteAdmissible(note))
    => parsed = [mapping |-> symbol, note |-> NoteBack(note)]

C1_Witness ==
  /\ pc = "round_trip"
  /\ Truthy(symbol) /\ ~Contains(symbol, ":") /\ ~Contains(symbol, "#") /\ IsTrimmed(symbol)
  /\ Truthy(note) /\ IsTrimmed(note) /\ Contains(note, "#") /\ Contains(note, ":")
  /\ parsed = [mapping |-> symbol, note |-> note]

(***************************************************************************)
(* C2  A bare "namespace:symbol" decodes to the symbol with no note.       *)
(***************************************************************************)
\* C2 as stated: for every non-empty symbol without a colon and every
\* namespace "CA<digits>", decode(namespace + ":" + symbol) is
\* {symbol, none}.
C2_BareMapping_AsStated ==
  (/\ pc = "parsed" /\ Contains(comment, ":")
   /\ IsCADigits(BeforeFirstColon(comment))
   /\ AfterFirstColon(comment) # <<>> /\ ~Contains(AfterFirstColon(comment), ":"))
    => parsed = [mapping |-> AfterFirstColon(comment), note |-> None]

\* C2 (amended): decode(namespace + ":" + symbol) is {symbol, none} for
\* every namespace "CA<digits>" of at most IntMaxStrDigits digits and every
\* symbol that is non-empty, contains neither a colon nor a '#', and has no
\* leading or trailing whitespace.
C2_BareMapping ==
  (/\ pc = "parsed" /\ Contains(comment, ":")
   /\ IsCADigits(BeforeFirstColon(comment))
   /\ Len(BeforeFirstColon(comment)) - 2 <= IntMaxStrDigits
   /\ AfterFirstColon(comment) # <<>> /\ ~Contains(AfterFirstColon(comment), ":")
   /\ ~Contains(AfterFirstColon(comment), "#") /\ IsTrimmed(AfterFirstColon(comment)))
    => parsed = [mapping |-> AfterFirstColon(comment), note |-> None]

C2_Witness ==
  /\ pc = "parsed" /\ Contains(comment, ":")
  /\ IsCADigits(BeforeFirstColon(comment)) /\ Len(BeforeFirstColon(comment)) > 3
  /\ Len(AfterFirstColon(comment)) > 1 /\ ~Contains(AfterFirstColon(comment), ":")
  /\ ~Contains(AfterFirstColon(comment), "#") /\ IsTrimmed(AfterFirstColon(comment))
  /\ parsed = [mapping |-> AfterFirstColon(comment), note |-> None]

(***************************************************************************)
(* C3  Namespace validation.                                               *)
(***************************************************************************)
\* C3: decode returns a non-empty record only if the trimmed text before the
\* first colon of the mapping part is "CA" followed by one or more decimal
\* digits and nothing else (no sign, no padding).
C3_NamespaceDigitsOnly ==
  (pc = "parsed" /\ parsed # EmptyRecord)
    => /\ Contains(BeforeFirstHash(strip(comment)), ":")
       /\ IsCADigits(strip(BeforeFirstColon(BeforeFirstHash(strip(comment)))))

(***************************************************************************)
(* C4  No colon before the first '#': the empty record.                    *)
(***************************************************************************)
\* C4: for every string whose part before the first '#' (the whole string
\* when it has none) contains no colon, decode is the empty record, whatever
\* follows the '#'.
C4_NoColonIsEmpty ==
  (pc = "parsed" /\ ~Contains(BeforeFirstHash(comment), ":")) => parsed = EmptyRecord

C4_Witness ==
  /\ pc = "parsed"
  /\ Contains(comment, "#") /\ ~Contains(BeforeFirstHash(comment), ":")
  /\ startswith(comment, <<"C", "A", "0">>)
  /\ Contains(AfterFirstHash(comment), ":") /\ strip(AfterFirstHash(comment)) # <<>>
  /\ parsed = EmptyRecord

(***************************************************************************)
(* C5  Only the first '#' is a delimiter.                                  *)
(***************************************************************************)
\* The note C5 expects of a trimmed input t.
ExpectedNote(t) ==
  IF ~Contains(t, "#") \/ strip(AfterFirstHash(t)) = <<>> THEN None
  ELSE strip(AfterFirstHash(t))

\* C5: the symbol and the accept/reject decision of decode(s) are those of
\* decoding the text before the first '#' alone, and an accepted s has as
\* note the trimmed text after the first '#', verbatim (none when empty or
\* when there is no '#').
C5_FirstHashOnly ==
  pc = "parsed"
    => /\ parsed.mapping = parse_comment_mapping(BeforeFirstHash(strip(comment))).mapping
       /\ parsed.mapping # None => parsed.note = ExpectedNote(strip(comment))

C5_Witness ==
  /\ pc = "parsed"
  /\ parsed.mapping # None
  /\ Contains(comment, "#") /\ Contains(AfterFirstHash(comment), "#")
  /\ parsed.note = strip(AfterFirstHash(strip(comment)))

(***************************************************************************)
(* C6  Output invariant of decode.                                         *)
(***************************************************************************)
\* C6: a decoded symbol is none or a non-empty string without a colon, and a
\* record without a symbol has no note.
C6_OutputInvariant ==
  pc \in {"parsed", "round_trip"}
    => /\ parsed.mapping = None \/ (parsed.mapping # <<>> /\ ~Contains(parsed.mapping, ":"))
       /\ parsed.mapping = None => parsed.note = None

C6_Witness ==
  /\ pc = "parsed"
  /\ Contains(BeforeFirstHash(comment), ":")
  /\ IsCADigits(strip(BeforeFirstColon(BeforeFirstHash(comment))))
  /\ strip(AfterFirstColon(BeforeFirstHash(comment))) = <<>>
  /\ ExpectedNote(strip(comment)) # None
  /\ parsed = EmptyRecord

(***************************************************************************)
(* C7  No symbol, no comment.                                              *)
(***************************************************************************)
\* C7: encoding with an absent or empty symbol gives the empty string for
\* every note and every namespace.
C7_NoSymbolEncodesEmpty ==
  (pc = "built" /\ ~Truthy(symbol)) => built = <<>>

C7_Witness ==
  /\ pc = "built" /\ symbol = <<>>
  /\ Truthy(note) /\ strip(note) # <<>> /\ namespace # DefaultNamespace /\ namespace # <<>>
  /\ built = <<>>

(***************************************************************************)
(* C8  The shape of an encoded comment.                                    *)
(***************************************************************************)
\* What C8 expects of encode(sym, n, ns) for a non-empty sym.
ExpectedComment(sym, n, ns) ==
  IF n = None \/ strip(n) = <<>> THEN ns \o <<":">> \o sym
  ELSE ns \o <<":">> \o sym \o <<" ", "#">> \o strip(n)

\* C8: for every non-empty symbol, encode is namespace ":" symbol when the
\* note is absent, empty or blank, and namespace ":" symbol " #" trim(note)
\* otherwise; the namespace is "CA0" when none is given.
C8_EncodedShape ==
  /\ (pc = "built" /\ Truthy(symbol)) => built = ExpectedComment(symbol, note, namespace)
  /\ (pc = "round_trip" /\ Truthy(symbol))
       => built = ExpectedComment(symbol, note, DefaultNamespace)

C8_Witness ==
  /\ pc = "built" /\ Truthy(symbol) /\ namespace # DefaultNamespace
  /\ Truthy(note) /\ ~IsTrimmed(note) /\ Contains(strip(note), "#")
  /\ built = namespace \o <<":">> \o symbol \o <<" ", "#">> \o strip(note)

(***************************************************************************)
(* C9  Re-encoding is stable.                                              *)
(***************************************************************************)
\* C9: decoding the re-encoded decode of any raw string gives the same
\* record as decoding the raw string.
C9_ReencodeStable == pc = "reparsed" => reparsed = parsed

C9_Witness ==
  /\ pc = "reparsed"
  /\ parsed.mapping # None /\ parsed.note # None
  /\ built # comment
  /\ reparsed = parsed

(***************************************************************************)
(* C10  The codec never raises.                                            *)
(***************************************************************************)
\* C10: no call of decode or encode lets an exception escape; decode ends
\* with a valid record or the empty record.
C10_NeverRaises ==
  /\ raised = NoExc
  /\ pc \in {"parsed", "round_trip"} => (parsed = EmptyRecord \/ ValidRecord(parsed))
  /\ pc = "reparsed" => (reparsed = EmptyRecord \/ ValidRecord(reparsed))

\* A namespace whose suffix int() refuses was reached and answered with the
\* empty record.
C10_Witness ==
  /\ pc = "parsed" /\ raised = NoExc /\ parsed = EmptyRecord
  /\ Contains(BeforeFirstHash(strip(comment)), ":")
  /\ namespace_shape_ok(strip(BeforeFirstColon(BeforeFirstHash(strip(comment)))))
  /\ namespace_int_exc(strip(BeforeFirstColon(BeforeFirstHash(strip(comment))))) = ValueError

(***************************************************************************)
(* C11  Comments of the earlier format decode to the empty record.         *)
(***************************************************************************)
\* The first non-whitespace character of s is '#'.
StartsWithHash(s) == lstrip(s) # <<>> /\ lstrip(s)[1] = "#"

\* C11: every string the service's build_comment_string produces, and every
\* string whose first non-whitespace character is '#', is decoded by the
\* current parse_comment_mapping to the empty record.
C11_LegacyDecodesEmpty ==
  /\ pc = "legacy_decoded" => parsed = EmptyRecord
  /\ (pc = "parsed" /\ StartsWithHash(comment)) => parsed = EmptyRecord

C11_Witness ==
  /\ pc = "legacy_decoded"
  /\ Truthy(symbol) /\ Truthy(note) /\ Contains(note, ":")
  /\ built = TagAC \o symbol \o <<" ">> \o TagNote \o <<"{", "{">> \o strip(note) \o <<"}", "}">>
  /\ parsed = EmptyRecord

(***************************************************************************)
(* C12  Write, then read, through the service.                             *)
(***************************************************************************)
\* The note a read is expected to report for a note n that was written.
WrittenNote(n) == IF n = None \/ strip(n) = <<>> THEN None ELSE strip(n)

\* C12: when update_parameter_mapping(name, symbol, note) has succeeded with
\* a non-empty symbol, the get_user_parameters that returns next, if it read
\* the comment that call wrote, reports mapping = symbol and note = the
\* trimmed note (none without a note) for that parameter.
C12_WriteThenRead ==
  [][(/\ response.op = "set_parameter_mapping" /\ response.success /\ Truthy(response.mapping)
      /\ response'.op = "get_user_parameters" /\ response'.success
      /\ response.name \in DOMAIN response'.parameters
      /\ response'.parameters[response.name].comment
           = api_build_comment_string(response.mapping, response.note))
       => /\ response'.parameters[response.name].mapping = response.mapping
          /\ response'.parameters[response.name].note = WrittenNote(response.note)]_vars

(***************************************************************************)
(* C13  Removing a mapping clears it.                                      *)
(***************************************************************************)
\* Thread w is inside (or enters) the update_parameter_mapping of a remove.
Removing(w) == calls[w].op = "remove_parameter_mapping"

\* C13: the write of a remove_parameter_mapping leaves the parameter's
\* comment empty, whatever it was, and changes no value and no other
\* comment; the remove writes nothing else before it returns success; and a
\* read reports mapping none and note none for every parameter whose
\* comment it read as empty.
C13_RemoveClears ==
  [][/\ \A w \in Workers :
          /\ (calls[w] = Idle /\ Removing(w)')
               => /\ Comment'[calls'[w].name] = <<>>
                  /\ \A q \in user_params \ {calls'[w].name} : Comment'[q] = Comment[q]
                  /\ Value' = Value
                  /\ user_params' = user_params
          /\ (Removing(w) /\ calls'[w] # calls[w])
               => /\ Comment' = Comment
                  /\ Value' = Value
                  /\ calls'[w] = Idle
                       => (response'.op = "remove_parameter_mapping" /\ response'.success)
          /\ (calls[w].op = "get_user_parameters" /\ calls'[w].op = "get_user_parameters")
               => \A q \in (DOMAIN calls'[w].parameters) \ (DOMAIN calls[w].parameters) :
                    Comment[q] = <<>>
                      => /\ calls'[w].parameters[q].mapping = None
                         /\ calls'[w].parameters[q].note = None
     /\ (response'.op = "get_user_parameters" /\ response'.success)
          => \A q \in DOMAIN response'.parameters :
               response'.parameters[q].comment = <<>>
                 => /\ response'.parameters[q].mapping = None
                    /\ response'.parameters[q].note = None]_vars

C13_Witness ==
  /\ response.op = "remove_parameter_mapping" /\ response.success
  /\ Comment[response.name] = <<>>
  /\ Value[response.name] # 0
  /\ \E q \in user_params : Comment[q] # <<>>

(***************************************************************************)
(* C14  The COM session is released on every way out.                      *)
(***************************************************************************)
\* C14: after any sequence of calls of get_user_parameters,
\* update_fx_parameter, update_parameter_mapping, get_mappings and
\* save_mappings, whichever way each returned, no COM session stays
\* acquired: the sessions held are those of the calls that have not yet
\* returned, one each.
C14_SessionsReleased == com = Cardinality(Busy)

C14_Witness ==
  /\ response.op = "set_parameter_mapping" /\ response.exit = "value_failed"
  /\ mappings_prop # None
  /\ Busy = {}
  /\ com = 0

(***************************************************************************)
(* C15  The comment is written before the value, without rollback.         *)
(***************************************************************************)
\* Thread w is inside (or enters) update_parameter_mapping.
Updating(w) == calls[w].op \in {"set_parameter_mapping", "remove_parameter_mapping"}

\* C15: a call of update_parameter_mapping that finds its parameter replaces
\* the comment by the newly built comment before it touches the value; when
\* a value is supplied and Inventor refuses it, the call fails with "Failed
\* to update value" (status 400) and that step changes no comment and no
\* value; when no value is supplied no step of the call changes a value.
C15_CommentBeforeValue ==
  [][\A w \in Workers :
       /\ (calls[w] = Idle /\ Updating(w)')
            => /\ Comment'[calls'[w].name]
                    = api_build_comment_string(calls'[w].mapping, calls'[w].note)
               /\ Value' = Value
       /\ (Updating(w) /\ calls[w].pc = "value" /\ calls[w].name \in value_rejected
             /\ calls'[w] # calls[w])
            => /\ ~response'.success
               /\ response'.error = ErrValue
               /\ response'.status = "400"
               /\ response'.name = calls[w].name
               /\ Comment' = Comment
               /\ Value' = Value
       /\ (Updating(w) /\ calls[w].value = NoValue /\ calls'[w] # calls[w])
            => Value' = Value]_vars

C15_Witness ==
  /\ response.op = "set_parameter_mapping" /\ response.exit = "value_failed"
  /\ response.error = ErrValue
  /\ Truthy(response.mapping) /\ Truthy(response.note)
  /\ Comment[response.name] = api_build_comment_string(response.mapping, response.note)
  /\ Value[response.name] = 0

(***************************************************************************)
(* C16  A rejected mapping update changes nothing.                         *)
(***************************************************************************)
\* C16: a set or remove request with a missing or empty name fails with
\* status 400 without calling update_parameter_mapping; a call naming no
\* user parameter, or made without an active document, returns success
\* False; in all these cases no comment and no value changes.
C16_RejectedChangesNothing ==
  [][/\ (/\ response'.op \in {"set_parameter_mapping", "remove_parameter_mapping"}
         /\ response'.name \in {NoName, ""})
          => /\ response'.status = "400"
             /\ ~response'.called
             /\ Comment' = Comment /\ Value' = Value
     /\ (/\ response'.op \in {"set_parameter_mapping", "remove_parameter_mapping"}
         /\ response'.called
         /\ (response'.name \notin user_params \/ inventor = "no_document"))
          => /\ ~response'.success
             /\ Comment' = Comment /\ Value' = Value]_vars

C16_Witness ==
  /\ response.op = "set_parameter_mapping" /\ response.name = ""
  /\ response.status = "400" /\ ~response.called
  /\ inventor = "part"
  /\ \E q \in user_params : Contains(Comment[q], "{")

====
